---- MODULE Spec2Model ----
(***************************************************************************)
(* EmailParser of src/process_emails.py: the vocabulary indexer            *)
(* (__init__) and the extraction pipeline (parse), one step per loop       *)
(* iteration.                                                              *)
(*                                                                         *)
(* A Python str is a sequence of one-character strings, so that lower(),   *)
(* strip(), split(), title() and the regular expressions act on            *)
(* characters.  An Optional value is a sequence of length at most one:     *)
(* None is << >> and a present value v is << v >>.  A confidence is an     *)
(* integer number of hundredths (0.95 is 95).                              *)
(***************************************************************************)
EXTENDS Integers, Sequences, FiniteSets, TLC

VARIABLES price_list, config, text, product_names, header, body, event,
          items_found, unknown_candidates, consolidated, pc, idx,
          discount_rules, inbox, listing, events, outbox, quotes, timeline,
          parse_result, saves, ipc, fidx, run

\* the state of EmailParser and of one parse call
parse_vars == <<price_list, config, text, product_names, header, body, event,
                items_found, unknown_candidates, consolidated, pc, idx>>

\* the state of process_inbox: the inbox directory, the data directory and the loop
inbox_vars == <<discount_rules, inbox, listing, events, outbox, quotes, timeline,
                parse_result, saves, ipc, fidx, run>>

vars == <<parse_vars, inbox_vars>>

None == << >>

Some(x) == << x >>

\* ------------------------------------------------------------------------
\* Characters and str methods
\* ------------------------------------------------------------------------
LowerLetters ==
  <<"a", "b", "c", "d", "e", "f", "g", "h", "i", "j", "k", "l", "m",
    "n", "o", "p", "q", "r", "s", "t", "u", "v", "w", "x", "y", "z">>

UpperLetters ==
  <<"A", "B", "C", "D", "E", "F", "G", "H", "I", "J", "K", "L", "M",
    "N", "O", "P", "Q", "R", "S", "T", "U", "V", "W", "X", "Y", "Z">>

LowerSet == {LowerLetters[k] : k \in 1..Len(LowerLetters)}

UpperSet == {UpperLetters[k] : k \in 1..Len(UpperLetters)}

DigitChars == <<"0", "1", "2", "3", "4", "5", "6", "7", "8", "9">>

DigitSet == {DigitChars[k] : k \in 1..Len(DigitChars)}

\* the one-character string U+20B9 (INDIAN RUPEE SIGN), written in ASCII
RupeeSign == "<U+20B9>"

LowerMap == [c \in UpperSet |-> LowerLetters[CHOOSE k \in 1..Len(UpperLetters) : UpperLetters[k] = c]]

UpperMap == [c \in LowerSet |-> UpperLetters[CHOOSE k \in 1..Len(LowerLetters) : LowerLetters[k] = c]]

LowerChar(c) == IF c \in UpperSet THEN LowerMap[c] ELSE c

UpperChar(c) == IF c \in LowerSet THEN UpperMap[c] ELSE c

IsLetter(c) == c \in LowerSet \/ c \in UpperSet

IsDigit(c) == c \in DigitSet

\* \w
IsWordChar(c) == IsLetter(c) \/ IsDigit(c) \/ c = "_"

\* [\w\-]
IsTokenChar(c) == IsWordChar(c) \/ c = "-"

\* \s
IsSpace(c) == c \in {" ", "\n", "\t", "\r"}

\* str.lower()
StrLower(s) == [k \in 1..Len(s) |-> LowerChar(s[k])]

\* str.title(): a letter is upper-cased unless the character before it is a letter
StrTitle(s) ==
  [k \in 1..Len(s) |->
     IF k > 1 /\ IsLetter(s[k - 1]) THEN LowerChar(s[k]) ELSE UpperChar(s[k])]

\* str.startswith(prefix)
StartsWith(s, prefix) ==
  Len(s) >= Len(prefix) /\ SubSeq(s, 1, Len(prefix)) = prefix

\* str.endswith(suffix)
EndsWith(s, suffix) ==
  Len(s) >= Len(suffix) /\ SubSeq(s, Len(s) - Len(suffix) + 1, Len(s)) = suffix

\* str.find(sub) + 1: the first position where sub occurs in s, 0 if none
Find(s, sub) ==
  LET hits == {p \in 1..(Len(s) - Len(sub) + 1) : SubSeq(s, p, p + Len(sub) - 1) = sub}
  IN IF hits = {} THEN 0 ELSE CHOOSE p \in hits : \A q \in hits : p <= q

\* sub in s
Contains(s, sub) == Find(s, sub) # 0

\* str.split(sep, 1)
SplitOnce(s, sep) ==
  LET p == Find(s, sep)
  IN IF p = 0 THEN << s >>
     ELSE << SubSeq(s, 1, p - 1), SubSeq(s, p + Len(sep), Len(s)) >>

\* str.splitlines()
RECURSIVE SplitLines(_)
SplitLines(s) ==
  IF s = << >> THEN << >>
  ELSE LET p == Find(s, << "\n" >>)
       IN IF p = 0 THEN << s >>
          ELSE << SubSeq(s, 1, p - 1) >> \o SplitLines(SubSeq(s, p + 1, Len(s)))

\* str.strip(chars): chars is a set; str.strip() is StripChars(s, whitespace)
StripChars(s, chars) ==
  LET keep == {k \in 1..Len(s) : s[k] \notin chars}
  IN IF keep = {} THEN << >>
     ELSE SubSeq(s, CHOOSE k \in keep : \A j \in keep : k <= j,
                    CHOOSE k \in keep : \A j \in keep : k >= j)

Strip(s) == StripChars(s, {" ", "\n", "\t", "\r"})

\* int(digits)
RECURSIVE ParseInt(_)
ParseInt(s) ==
  IF s = << >> THEN 0
  ELSE 10 * ParseInt(SubSeq(s, 1, Len(s) - 1))
       + ((CHOOSE k \in 1..Len(DigitChars) : DigitChars[k] = s[Len(s)]) - 1)

\* ------------------------------------------------------------------------
\* Regular expressions.  A position p in 1..Len(s)+1 stands before s[p];
\* a match is [start, end, group1 ...] with end exclusive, as in re.Match.span.
\* ------------------------------------------------------------------------
\* \b at position p
WordBoundary(s, p) ==
  LET before == p > 1 /\ IsWordChar(s[p - 1])
      after == p <= Len(s) /\ IsWordChar(s[p])
  IN before # after

\* membership of c in a character class of the patterns: \d, \s, \w or [\w\-]
InClass(c, class) ==
  CASE class = "d" -> IsDigit(c)
    [] class = "s" -> IsSpace(c)
    [] class = "w" -> IsWordChar(c)
    [] class = "t" -> IsTokenChar(c)

\* the end of the longest run of characters of a class that starts at p (a greedy +)
RunEnd(s, p, class) ==
  CHOOSE e \in p..(Len(s) + 1) :
    /\ \A k \in p..(e - 1) : InClass(s[k], class)
    /\ e = Len(s) + 1 \/ ~InClass(s[e], class)

\* the literal lit (case-insensitive) at position p
LiteralAt(s, p, lit) ==
  /\ p + Len(lit) - 1 <= Len(s)
  /\ StrLower(SubSeq(s, p, p + Len(lit) - 1)) = StrLower(lit)
\* qty_pattern  \b(\d+)\s+(?:\w+\s+)?key\b  tried at position p.  Each greedy run
\* is followed by a character outside its class, so only the longest run can
\* match; the optional filler word is tried before the match without it.
QtyMatchAt(s, p, key) ==
  LET d == RunEnd(s, p, "d")
      w == RunEnd(s, d, "s")
      f == RunEnd(s, w, "w")
      g == RunEnd(s, f, "s")
      KeyAt(q) == LiteralAt(s, q, key) /\ WordBoundary(s, q + Len(key))
  IN IF ~(WordBoundary(s, p) /\ d > p /\ w > d) THEN None
     ELSE IF f > w /\ g > f /\ KeyAt(g)
          THEN Some([start |-> p, end |-> g + Len(key), group1 |-> SubSeq(s, p, d - 1)])
     ELSE IF KeyAt(w)
          THEN Some([start |-> p, end |-> w + Len(key), group1 |-> SubSeq(s, p, d - 1)])
     ELSE None

\* qty_pattern.finditer(s) from position p: leftmost, non-overlapping matches
RECURSIVE QtyFinditer(_, _, _)
QtyFinditer(s, p, key) ==
  IF p > Len(s) THEN << >>
  ELSE LET m == QtyMatchAt(s, p, key)
       IN IF m = None THEN QtyFinditer(s, p + 1, key)
          ELSE m \o QtyFinditer(s, m[1].end, key)

\* plain_pattern  \bkey\b  tried at position p
PlainMatchAt(s, p, key) ==
  IF WordBoundary(s, p) /\ LiteralAt(s, p, key) /\ WordBoundary(s, p + Len(key))
  THEN Some([start |-> p, end |-> p + Len(key)])
  ELSE None

\* plain_pattern.finditer(s) from position p
RECURSIVE PlainFinditer(_, _, _)
PlainFinditer(s, p, key) ==
  IF p > Len(s) THEN << >>
  ELSE LET m == PlainMatchAt(s, p, key)
       IN IF m = None THEN PlainFinditer(s, p + 1, key)
          ELSE m \o PlainFinditer(s, m[1].end, key)

\* and_pattern  \b([\w\-]+)\s+and\s+([\w\-]+)\b  tried at position p.  The
\* second group is greedy and backs off to the last position with a \b.
AndMatchAt(s, p) ==
  LET a == RunEnd(s, p, "t")
      b == RunEnd(s, a, "s")
      c == b + 3
      d == RunEnd(s, c, "s")
      e == RunEnd(s, d, "t")
      ends == {q \in (d + 1)..e : WordBoundary(s, q)}
  IN IF /\ WordBoundary(s, p) /\ a > p /\ b > a
        /\ LiteralAt(s, b, <<"a", "n", "d">>) /\ d > c /\ ends # {}
     THEN LET q == CHOOSE q \in ends : \A r \in ends : q >= r
          IN Some([start |-> p, end |-> q,
                   group1 |-> SubSeq(s, p, a - 1), group2 |-> SubSeq(s, d, q - 1)])
     ELSE None

\* and_pattern.finditer(s) from position p
RECURSIVE AndFinditer(_, _)
AndFinditer(s, p) ==
  IF p > Len(s) THEN << >>
  ELSE LET m == AndMatchAt(s, p)
       IN IF m = None THEN AndFinditer(s, p + 1)
          ELSE m \o AndFinditer(s, m[1].end)

\* re.findall(r'[\w\-]+', s) from position p
RECURSIVE FindTokens(_, _)
FindTokens(s, p) ==
  IF p > Len(s) THEN << >>
  ELSE IF ~IsTokenChar(s[p]) THEN FindTokens(s, p + 1)
  ELSE LET e == RunEnd(s, p, "t")
       IN << SubSeq(s, p, e - 1) >> \o FindTokens(s, e)

\* ------------------------------------------------------------------------
\* dict: an insertion-ordered sequence of <<key, value>> pairs
\* ------------------------------------------------------------------------
DictKeys(d) == {d[k][1] : k \in 1..Len(d)}

\* d.get(key): None if the key is absent
DictGet(d, key) ==
  IF key \in DictKeys(d)
  THEN Some(d[CHOOSE k \in 1..Len(d) : d[k][1] = key][2])
  ELSE None

\* d[key] = value: a present key keeps its place and takes the new value
DictSet(d, key, value) ==
  IF key \in DictKeys(d)
  THEN [k \in 1..Len(d) |-> IF d[k][1] = key THEN <<key, value>> ELSE d[k]]
  ELSE Append(d, <<key, value>>)

\* list(d.values())
DictValues(d) == [k \in 1..Len(d) |-> d[k][2]]

\* r.get(key) on a JSON object (a record): None if the key is absent
JsonGet(r, key) == IF key \in DOMAIN r THEN Some(r[key]) ELSE None

\* r.get(key, default)
JsonGetOr(r, key, default) == IF key \in DOMAIN r THEN Some(r[key]) ELSE default

\* bool(value) is False for an Optional str
Falsy(value) == value = None \/ value = Some(<< >>)

\* ------------------------------------------------------------------------
\* Constants of parse
\* ------------------------------------------------------------------------
HeaderConfidence == 95

CurrencyConfidence == 80

DefaultCurrencyConfidence == 50

QuantityConfidence == 90

BareConfidence == 60

UnknownConfidence == 20

UnitConfidence == 80

ScanWindow == 4

stopwords ==
  {
    <<"s", "o", "m", "e">>, <<"a", "n", "y">>, <<"m", "o", "r", "e">>, <<"f", "e", "w">>, <<"a", "s", "a", "p">>, <<"p", "r", "i", "c", "i", "n", "g">>,
    <<"p", "r", "i", "c", "e">>, <<"c", "o", "s", "t">>, <<"t", "i", "m", "e">>, <<"i", "n", "f", "o">>, <<"i", "n", "f", "o", "r", "m", "a", "t", "i", "o", "n">>,
    <<"a", "v", "a", "i", "l", "a", "b", "i", "l", "i", "t", "y">>, <<"p", "l", "e", "a", "s", "e">>, <<"c", "o", "u", "l", "d">>, <<"l", "o", "o", "k", "i", "n", "g">>, <<"i", "t", "e", "m", "s">>,
    <<"i", "t", "e", "m">>, <<"p", "r", "o", "d", "u", "c", "t">>, <<"p", "r", "o", "d", "u", "c", "t", "s">>, <<"i", "t">>, <<"t", "h", "e", "m">>, <<"t", "h", "e", "y">>,
    <<"y", "o", "u", "r">>, <<"o", "u", "r">>, <<"q", "u", "o", "t", "e">>, <<"y", "e", "t">>, <<"u", "s">>, <<"a", "b", "o", "u", "t">>, <<"t", "o">>,
    <<"a", "n", "d">>, <<"t", "h", "a", "n", "k", "s">>, <<"t", "h", "a", "n", "k">>, <<"g", "e", "t">>, <<"m", "e">>, <<"h", "o", "w">>, <<"m", "a", "n", "y">>,
    <<"i", "f">>, <<"t", "h", "e", "r", "e">>, <<"l", "e", "t">>, <<"k", "n", "o", "w">>, <<"h", "e", "l", "l", "o">>, <<"h", "i">>, <<"w", "e">>,
    <<"i">>, <<"m", "y">>, <<"y", "o", "u">>, <<"a", "l", "s", "o">>, <<"r", "e", "g", "a", "r", "d", "s">>, <<"c", "h", "e", "e", "r", "s">>, <<"k", "i", "n", "d">>,
    <<"b", "e", "s", "t">>, <<"t", "e", "a", "m">>
  }

verb_tokens == {<<"o", "r", "d", "e", "r">>, <<"b", "u", "y">>, <<"p", "u", "r", "c", "h", "a", "s", "e">>, <<"n", "e", "e", "d">>, <<"l", "o", "o", "k", "i", "n", "g">>}

StripSet == {".", ",", ";", ":", "'", "\"", "!", "?"}

Field(value, confidence, notes) ==
  [value |-> value, confidence |-> confidence, notes |-> notes]

InitialEvent ==
  [from |-> Field(None, 0, ""),
   subject |-> Field(None, 0, ""),
   items |-> << >>,
   currency |-> Field(None, 0, ""),
   missing_fields |-> << >>]

\* ------------------------------------------------------------------------
\* __init__: the alias map
\* ------------------------------------------------------------------------
\* one iteration of the loop over price_list.keys()
RegisterName(names, name) ==
  LET lc == StrLower(name)
      first == DictSet(names, lc, name)
  IN IF ~EndsWith(lc, <<"s">>) THEN DictSet(first, lc \o <<"s">>, name) ELSE first

\* ------------------------------------------------------------------------
\* parse: header
\* ------------------------------------------------------------------------
HeaderField(value, missing_note) ==
  Field(Some(value),
        IF value # << >> THEN HeaderConfidence ELSE 0,
        IF value # << >> THEN "" ELSE missing_note)

\* one iteration of the loop over header.splitlines()
HeaderStep(ev, line) ==
  IF StartsWith(StrLower(line), <<"f", "r", "o", "m", ":">>)
  THEN [ev EXCEPT !.from = HeaderField(Strip(SplitOnce(line, <<":">>)[2]), "missing sender")]
  ELSE IF StartsWith(StrLower(line), <<"s", "u", "b", "j", "e", "c", "t", ":">>)
  THEN [ev EXCEPT !.subject = HeaderField(Strip(SplitOnce(line, <<":">>)[2]), "missing subject")]
  ELSE ev

\* ------------------------------------------------------------------------
\* parse: currency
\* ------------------------------------------------------------------------
CurrencyMatch(body_lower) ==
  IF Contains(body_lower, <<"u", "s", "d">>) \/ Contains(body_lower, <<"$">>)
  THEN Some(<<"U", "S", "D">>)
  ELSE IF \/ Contains(body_lower, <<"i", "n", "r">>)
          \/ Contains(body_lower, << RupeeSign >>)
          \/ Contains(body_lower, <<"r", "u", "p", "e", "e", "s">>)
  THEN Some(<<"I", "N", "R">>)
  ELSE None

CurrencyField(cfg, body_text) ==
  LET currency_match == CurrencyMatch(StrLower(body_text))
  IN IF currency_match # None
     THEN Field(currency_match, CurrencyConfidence, "")
     ELSE Field(JsonGet(cfg, "currency"), DefaultCurrencyConfidence,
                "default currency assumed")

\* ------------------------------------------------------------------------
\* parse: known products
\* ------------------------------------------------------------------------
Mention(name, qty, conf, note) ==
  [name |-> name, qty |-> qty, conf |-> conf, note |-> note]

\* a faulty overlap test: the bare match is dropped as soon as the alias has any
\* quantity match, wherever it lies
OverlapsAnyQuantity(match, qmatches) == qmatches # << >>

\* the overlaps_quantity flag of a bare match, given the quantity matches
OverlapsQuantity(match, qmatches) ==
  \E k \in 1..Len(qmatches) :
    qmatches[k].start <= match.start /\ match.end <= qmatches[k].end

\* the mentions of one quantity_pattern.finditer loop
QuantityMentions(qmatches, canonical_name) ==
  [k \in 1..Len(qmatches) |->
     Mention(canonical_name,
             IF qmatches[k].group1 # << >> THEN Some(ParseInt(qmatches[k].group1)) ELSE None,
             QuantityConfidence, "")]

\* the mentions of one plain_pattern.finditer loop
RECURSIVE BareMentions(_, _, _)
BareMentions(matches, qmatches, canonical_name) ==
  IF matches = << >> THEN << >>
  ELSE (IF OverlapsQuantity(Head(matches), qmatches) THEN << >>
        ELSE << Mention(canonical_name, None, BareConfidence, "") >>)
       \o BareMentions(Tail(matches), qmatches, canonical_name)

\* one iteration of the loop over product_names.items()
KnownMentions(body_lower, key, canonical_name) ==
  IF StrLower(canonical_name) # key /\ StrLower(canonical_name) \o <<"s">> # key
  THEN << >>
  ELSE LET qmatches == QtyFinditer(body_lower, 1, key)
       IN QuantityMentions(qmatches, canonical_name)
          \o BareMentions(PlainFinditer(body_lower, 1, key), qmatches, canonical_name)

\* ------------------------------------------------------------------------
\* parse: unknown candidates
\* ------------------------------------------------------------------------
\* the candidates of the loop over and_pattern.finditer(body)
RECURSIVE ConjunctionCandidates(_, _)
ConjunctionCandidates(matches, names) ==
  IF matches = << >> THEN << >>
  ELSE LET first == Head(matches).group1
           second == Head(matches).group2
           first_known == StrLower(first) \in DictKeys(names)
           second_known == StrLower(second) \in DictKeys(names)
           candidate == IF first_known THEN second ELSE first
           cand_lc == StrLower(candidate)
       IN (IF /\ first_known # second_known
              /\ cand_lc \notin DictKeys(names)
              /\ cand_lc \notin stopwords
              /\ EndsWith(cand_lc, <<"s">>)
           THEN << StrTitle(candidate) >>
           ELSE << >>)
          \o ConjunctionCandidates(Tail(matches), names)

\* a faulty scan: without the break, every qualifying token of the window is recorded
RECURSIVE ScanAheadNoBreak(_, _, _, _)
ScanAheadNoBreak(tokens, i, offset, names) ==
  IF offset > ScanWindow \/ i + offset > Len(tokens) THEN << >>
  ELSE LET candidate == StripChars(tokens[i + offset], StripSet)
           cand_lc == StrLower(candidate)
       IN IF cand_lc \in DictKeys(names) \/ cand_lc \in stopwords \/ ~EndsWith(cand_lc, <<"s">>)
          THEN ScanAheadNoBreak(tokens, i, offset + 1, names)
          ELSE << StrTitle(candidate) >> \o ScanAheadNoBreak(tokens, i, offset + 1, names)

\* the inner loop "for offset in range(1, 5)" from offset on, for the verb at
\* tokens[i]: the candidate appended, if any
RECURSIVE ScanAhead(_, _, _, _)
ScanAhead(tokens, i, offset, names) ==
  IF offset > ScanWindow \/ i + offset > Len(tokens) THEN << >>
  ELSE LET candidate == StripChars(tokens[i + offset], StripSet)
           cand_lc == StrLower(candidate)
       IN IF cand_lc \in DictKeys(names) \/ cand_lc \in stopwords
          THEN ScanAhead(tokens, i, offset + 1, names)
          ELSE IF ~EndsWith(cand_lc, <<"s">>)
          THEN ScanAhead(tokens, i, offset + 1, names)
          ELSE << StrTitle(candidate) >>

\* one iteration of the loop over enumerate(tokens)
VerbStep(tokens, i, names) ==
  IF StrLower(tokens[i]) \in verb_tokens THEN ScanAhead(tokens, i, 1, names) ELSE << >>

\* the de-duplication loop: the mentions appended to items_found
RECURSIVE DedupMentions(_, _)
DedupMentions(cands, seen) ==
  IF cands = << >> THEN << >>
  ELSE IF Head(cands) \notin seen
  THEN << Mention(Head(cands), None, UnknownConfidence, "unknown product") >>
       \o DedupMentions(Tail(cands), seen \cup {Head(cands)})
  ELSE DedupMentions(Tail(cands), seen)

\* ------------------------------------------------------------------------
\* parse: consolidation
\* ------------------------------------------------------------------------
\* price_list.get(name, {}).get('unit_of_measure', config.get('default_unit'))
UnitOf(catalog, cfg, name) ==
  LET meta == DictGet(catalog, name)
  IN JsonGetOr(IF meta = None THEN << >> ELSE meta[1],
               "unit_of_measure", JsonGet(cfg, "default_unit"))

\* a faulty seed: the quantity confidence is the mention's even without a quantity
SeedItemKeepsConfidence(m, unit) ==
  [product_name |-> Field(Some(m.name), m.conf, m.note),
   quantity |-> Field(m.qty, m.conf, IF m.qty # None THEN "" ELSE "quantity missing"),
   unit |-> Field(unit, UnitConfidence, "")]

\* the Item created for the first mention of a name
SeedItem(m, unit) ==
  [product_name |-> Field(Some(m.name), m.conf, m.note),
   quantity |-> Field(m.qty,
                      IF m.qty # None THEN m.conf ELSE 0,
                      IF m.qty # None THEN "" ELSE "quantity missing"),
   unit |-> Field(unit, UnitConfidence, "")]

Max(a, b) == IF a >= b THEN a ELSE b

\* a faulty merge: a later quantity overwrites the one already held
MergeItemOverwrites(entry, m) ==
  LET adopted ==
        IF m.qty # None
        THEN [entry EXCEPT !.quantity = Field(m.qty, m.conf, "")]
        ELSE entry
  IN [adopted EXCEPT !.product_name.confidence = Max(entry.product_name.confidence, m.conf)]

\* the update of an existing Item by a later mention
MergeItem(entry, m) ==
  LET adopted ==
        IF entry.quantity.value = None /\ m.qty # None
        THEN [entry EXCEPT !.quantity = Field(m.qty, m.conf, "")]
        ELSE entry
  IN [adopted EXCEPT !.product_name.confidence = Max(entry.product_name.confidence, m.conf)]

\* a faulty lookup: by the lower-cased name, which no key of consolidated is
LookupItemFolded(cons, key_name) == DictGet(cons, StrLower(key_name))

\* consolidated.get(key_name)
LookupItem(cons, key_name) == DictGet(cons, key_name)

\* one iteration of the loop over items_found
ConsolidateStep(cons, m, unit) ==
  LET entry == LookupItem(cons, m.name)
  IN IF entry = None
     THEN Append(cons, <<m.name, SeedItem(m, unit)>>)
     ELSE DictSet(cons, m.name, MergeItem(entry[1], m))

\* ------------------------------------------------------------------------
\* parse: missing fields
\* ------------------------------------------------------------------------
\* a faulty analyzer step: the price entry is appended before the quantity entry
ItemMissingPriceFirst(item, catalog) ==
  (IF item.product_name.value[1] \notin DictKeys(catalog)
   THEN << <<"p", "r", "i", "c", "e", " ", "f", "o", "r", " ">> \o item.product_name.value[1] >> ELSE << >>)
  \o (IF item.quantity.value = None
      THEN << <<"q", "u", "a", "n", "t", "i", "t", "y", " ", "f", "o", "r", " ">> \o item.product_name.value[1] >> ELSE << >>)

\* the entries one Item contributes
ItemMissing(item, catalog) ==
  (IF item.quantity.value = None
   THEN << <<"q", "u", "a", "n", "t", "i", "t", "y", " ", "f", "o", "r", " ">> \o item.product_name.value[1] >> ELSE << >>)
  \o (IF item.product_name.value[1] \notin DictKeys(catalog)
      THEN << <<"p", "r", "i", "c", "e", " ", "f", "o", "r", " ">> \o item.product_name.value[1] >> ELSE << >>)

RECURSIVE ItemsMissing(_, _)
ItemsMissing(items, catalog) ==
  IF items = << >> THEN << >>
  ELSE ItemMissing(Head(items), catalog) \o ItemsMissing(Tail(items), catalog)

MissingFields(ev, catalog) ==
  (IF Falsy(ev.from.value) THEN << <<"f", "r", "o", "m">> >> ELSE << >>)
  \o (IF Falsy(ev.subject.value) THEN << <<"s", "u", "b", "j", "e", "c", "t">> >> ELSE << >>)
  \o (IF ev.items = << >> THEN << <<"i", "t", "e", "m", "s">> >> ELSE ItemsMissing(ev.items, catalog))

\* ------------------------------------------------------------------------
\* Inputs
\* ------------------------------------------------------------------------
MaxBodyPieces == 3

MaxHeaderLines == 2

MaxCatalog == 2

\* the sequences of at most n elements of S
SeqsUpTo(S, n) == UNION {[1..k -> S] : k \in 0..n}

\* ''.join(pieces)
RECURSIVE Concat(_)
Concat(pieces) ==
  IF pieces = << >> THEN << >> ELSE Head(pieces) \o Concat(Tail(pieces))

\* '\n'.join(lines)
RECURSIVE JoinLines(_)
JoinLines(lines) ==
  IF lines = << >> THEN << >>
  ELSE IF Len(lines) = 1 THEN lines[1]
  ELSE lines[1] \o << "\n" >> \o JoinLines(Tail(lines))

CatalogEntry(name) == <<name, [unit_price |-> 10, unit_of_measure |-> <<"b", "o", "x">>]>>

CatalogNames == {<<"P", "e", "n">>, <<"P", "e", "n", "s">>, <<"p", "e", "n">>, <<"C", "a", "p">>}

\* the catalogs of at most MaxCatalog distinct names, in every order
Catalogs ==
  {[k \in 1..Len(names) |-> CatalogEntry(names[k])] :
     names \in {q \in SeqsUpTo(CatalogNames, MaxCatalog) :
                  \A j, k \in 1..Len(q) : j # k => q[j] # q[k]}}

DefaultCatalog == << CatalogEntry(<<"P", "e", "n">>), CatalogEntry(<<"C", "a", "p">>) >>

PluralFirstCatalog == << CatalogEntry(<<"P", "e", "n", "s">>), CatalogEntry(<<"P", "e", "n">>) >>

\* a configuration as the input contract describes it, with the "currency"
\* entry as well
DefaultConfig ==
  [currency |-> <<"I", "N", "R">>, default_currency |-> <<"I", "N", "R">>, default_unit |-> <<"e", "a", "c", "h">>]

Configs ==
  {DefaultConfig,
   [default_currency |-> <<"E", "U", "R">>, default_unit |-> <<"e", "a", "c", "h">>]}

HeaderLines ==
  {<<"F", "r", "o", "m", ":", " ", "a">>, <<"f", "r", "o", "m", ":", "b", " ">>, <<"F", "r", "o", "m", ":">>, <<"S", "u", "b", "j", "e", "c", "t", ":", " ", "x">>, <<"S", "U", "B", "J", "E", "C", "T", ":">>, <<"T", "o", ":", " ", "z">>}

Headers == {JoinLines(q) : q \in SeqsUpTo(HeaderLines, MaxHeaderLines)}

DefaultHeader == <<"F", "r", "o", "m", ":", " ", "a", "\n", "S", "u", "b", "j", "e", "c", "t", ":", " ", "x">>

MatchPieces == {<<"5", " ">>, <<"p", "e", "n", " ">>, <<"1", "2", " ", "p", "e", "n", "s", ",", " ">>, <<"r", "e", "d", " ">>, <<"c", "a", "p", " ">>, <<"a", "n", "d", " ", "g", "i", "z", "m", "o", "s", " ">>}

VerbPieces ==
  {<<"n", "e", "e", "d", " ", "s", "o", "m", "e", " ">>, <<"b", "o", "b", " ", "a", "n", "y", " ", "p", "e", "n", "s", " ">>, <<"g", "i", "z", "m", "o", "s", " ">>, <<"b", "u", "y", " ", "L", "o", "o", "k", "i", "n", "g", " ">>, <<"L", "o", "o", "k", "i", "n", "g", " ">>, <<"u", "n", "i", "t", "s", " ">>}

CurrencyPieces == {<<"u", "s", "d", " ">>, <<"$", "5", " ">>, <<"I", "N", "R", " ">>, <<"R", "u", "p", "e", "e", "s", " ">>, << RupeeSign >>, <<"p", "e", "n", " ">>}

Bodies(pieces) == {Concat(q) : q \in SeqsUpTo(pieces, MaxBodyPieces)}

SampleBodies == {<< >>, <<"p", "e", "n", " ", "a", "n", "d", " ", "g", "i", "z", "m", "o", "s">>, <<"n", "e", "e", "d", " ", "g", "i", "z", "m", "o", "s", " ", "a", "n", "d", " ", "5", " ", "p", "e", "n", "s">>}

\* header, blank line, body
Email(h, b) == h \o <<"\n", "\n">> \o b

\* ------------------------------------------------------------------------
\* The state machine: EmailParser(price_list, config).parse(text)
\* ------------------------------------------------------------------------
InitWith(catalogs, configs, texts) ==
  /\ price_list \in catalogs
  /\ config \in configs
  /\ text \in texts
  /\ product_names = << >>
  /\ header = << >>
  /\ body = << >>
  /\ event = InitialEvent
  /\ items_found = << >>
  /\ unknown_candidates = << >>
  /\ consolidated = << >>
  /\ pc = "index"
  /\ idx = 1
  /\ discount_rules = << >>
  /\ inbox = << >>
  /\ listing = << >>
  /\ events = << >>
  /\ outbox = << >>
  /\ quotes = << >>
  /\ timeline = << >>
  /\ parse_result = << >>
  /\ saves = 0
  /\ ipc = "idle"
  /\ fidx = 1
  /\ run = 0

\* bodies that mention known products with and without quantities
Init == InitWith({DefaultCatalog, PluralFirstCatalog}, {DefaultConfig},
                 {Email(DefaultHeader, b) : b \in Bodies(MatchPieces)})

\* bodies of verbs, stopwords, aliases and unknown plurals
InitVerb == InitWith({DefaultCatalog}, {DefaultConfig},
                     {Email(DefaultHeader, b) : b \in Bodies(VerbPieces)})

\* bodies of currency cues, under configurations with and without "currency"
InitCurrency == InitWith({DefaultCatalog}, Configs,
                         {Email(DefaultHeader, b) : b \in Bodies(CurrencyPieces)})

\* headers of From:, Subject: and other lines, with and without a blank line
InitHeader == InitWith({DefaultCatalog}, {DefaultConfig},
                       {Email(h, b) : h \in Headers, b \in SampleBodies} \cup Headers)

\* catalogs whose names collide in lower case or under the naive plural
InitCatalog == InitWith(Catalogs, {DefaultConfig},
                        {Email(DefaultHeader, b) : b \in SampleBodies})

\* __init__, one name of price_list.keys()
Register ==
  /\ pc = "index"
  /\ idx <= Len(price_list)
  /\ product_names' = RegisterName(product_names, price_list[idx][1])
  /\ idx' = idx + 1
  /\ UNCHANGED <<price_list, config, text, header, body, event, items_found,
                 unknown_candidates, consolidated, pc>>
  /\ UNCHANGED inbox_vars

\* parse, up to the split of header and body
ParseStart ==
  /\ pc = "index"
  /\ idx > Len(price_list)
  /\ LET parts == SplitOnce(text, <<"\n", "\n">>)
     IN /\ header' = parts[1]
        /\ body' = IF Len(parts) > 1 THEN parts[2] ELSE << >>
  /\ event' = InitialEvent
  /\ pc' = "header"
  /\ idx' = 1
  /\ UNCHANGED <<price_list, config, text, product_names, items_found,
                 unknown_candidates, consolidated>>
  /\ UNCHANGED inbox_vars

\* one line of header.splitlines()
HeaderLine ==
  /\ pc = "header"
  /\ idx <= Len(SplitLines(header))
  /\ event' = HeaderStep(event, SplitLines(header)[idx])
  /\ idx' = idx + 1
  /\ UNCHANGED <<price_list, config, text, product_names, header, body,
                 items_found, unknown_candidates, consolidated, pc>>
  /\ UNCHANGED inbox_vars

\* the currency of the body
DetectCurrency ==
  /\ pc = "header"
  /\ idx > Len(SplitLines(header))
  /\ event' = [event EXCEPT !.currency = CurrencyField(config, body)]
  /\ items_found' = << >>
  /\ pc' = "known"
  /\ idx' = 1
  /\ UNCHANGED <<price_list, config, text, product_names, header, body,
                 unknown_candidates, consolidated>>
  /\ UNCHANGED inbox_vars

\* one alias of product_names.items()
MatchKnown ==
  /\ pc = "known"
  /\ idx <= Len(product_names)
  /\ items_found' = items_found
       \o KnownMentions(StrLower(body), product_names[idx][1], product_names[idx][2])
  /\ idx' = idx + 1
  /\ UNCHANGED <<price_list, config, text, product_names, header, body, event,
                 unknown_candidates, consolidated, pc>>
  /\ UNCHANGED inbox_vars

\* the conjunction heuristic
ConjunctionScan ==
  /\ pc = "known"
  /\ idx > Len(product_names)
  /\ unknown_candidates' = ConjunctionCandidates(AndFinditer(body, 1), product_names)
  /\ pc' = "verb"
  /\ idx' = 1
  /\ UNCHANGED <<price_list, config, text, product_names, header, body, event,
                 items_found, consolidated>>
  /\ UNCHANGED inbox_vars

\* the verb heuristic, one token of the body
VerbScan ==
  /\ pc = "verb"
  /\ idx <= Len(FindTokens(body, 1))
  /\ unknown_candidates' = unknown_candidates
       \o VerbStep(FindTokens(body, 1), idx, product_names)
  /\ idx' = idx + 1
  /\ UNCHANGED <<price_list, config, text, product_names, header, body, event,
                 items_found, consolidated, pc>>
  /\ UNCHANGED inbox_vars

\* the de-duplication of the candidates
Dedup ==
  /\ pc = "verb"
  /\ idx > Len(FindTokens(body, 1))
  /\ items_found' = items_found \o DedupMentions(unknown_candidates, {})
  /\ consolidated' = << >>
  /\ pc' = "consolidate"
  /\ idx' = 1
  /\ UNCHANGED <<price_list, config, text, product_names, header, body, event,
                 unknown_candidates>>
  /\ UNCHANGED inbox_vars

\* one mention of items_found
Consolidate ==
  /\ pc = "consolidate"
  /\ idx <= Len(items_found)
  /\ consolidated' = ConsolidateStep(consolidated, items_found[idx],
                                     UnitOf(price_list, config, items_found[idx].name))
  /\ idx' = idx + 1
  /\ UNCHANGED <<price_list, config, text, product_names, header, body, event,
                 items_found, unknown_candidates, pc>>
  /\ UNCHANGED inbox_vars

\* the item list and the missing fields; parse returns
Finish ==
  /\ pc = "consolidate"
  /\ idx > Len(items_found)
  /\ LET built == [event EXCEPT !.items = DictValues(consolidated)]
     IN event' = [built EXCEPT !.missing_fields = MissingFields(built, price_list)]
  /\ pc' = "done"
  /\ UNCHANGED <<price_list, config, text, product_names, header, body,
                 items_found, unknown_candidates, consolidated, idx>>
  /\ UNCHANGED inbox_vars

Next ==
  \/ Register
  \/ ParseStart
  \/ HeaderLine
  \/ DetectCurrency
  \/ MatchKnown
  \/ ConjunctionScan
  \/ VerbScan
  \/ Dedup
  \/ Consolidate
  \/ Finish

Spec == Init /\ [][Next]_vars

SpecVerb == InitVerb /\ [][Next]_vars

SpecCurrency == InitCurrency /\ [][Next]_vars

SpecHeader == InitHeader /\ [][Next]_vars

SpecCatalog == InitCatalog /\ [][Next]_vars


\* ------------------------------------------------------------------------
\* process_inbox: strings, numbers and identifiers
\* ------------------------------------------------------------------------
\* the ASCII characters of code points 32 to 95
AsciiLow ==
  <<" ", "!", "\"", "#", "$", "%", "&", "'", "(", ")", "*", "+",
    ",", "-", ".", "/", "0", "1", "2", "3", "4", "5", "6", "7",
    "8", "9", ":", ";", "<", "=", ">", "?", "@", "A", "B", "C",
    "D", "E", "F", "G", "H", "I", "J", "K", "L", "M", "N", "O",
    "P", "Q", "R", "S", "T", "U", "V", "W", "X", "Y", "Z", "[",
    "\\", "]", "^", "_">>

\* the ASCII characters of code points 97 to 126
AsciiHigh ==
  <<"a", "b", "c", "d", "e", "f", "g", "h", "i", "j", "k", "l",
    "m", "n", "o", "p", "q", "r", "s", "t", "u", "v", "w", "x",
    "y", "z", "{", "|", "}", "~">>

\* ord(c)
Ord(c) ==
  IF c = "\n" THEN 10
  ELSE IF c = RupeeSign THEN 8377
  ELSE IF \E k \in 1..Len(AsciiLow) : AsciiLow[k] = c
  THEN 31 + (CHOOSE k \in 1..Len(AsciiLow) : AsciiLow[k] = c)
  ELSE 96 + (CHOOSE k \in 1..Len(AsciiHigh) : AsciiHigh[k] = c)

\* a < b for two str, as sorted() compares them: by code point, a proper prefix first
RECURSIVE StrLess(_, _)
StrLess(a, b) ==
  IF b = << >> THEN FALSE
  ELSE IF a = << >> THEN TRUE
  ELSE IF Head(a) # Head(b) THEN Ord(Head(a)) < Ord(Head(b))
  ELSE StrLess(Tail(a), Tail(b))

\* sorted(names) for a set of distinct str
RECURSIVE Sorted(_)
Sorted(names) ==
  IF names = {} THEN << >>
  ELSE LET least == CHOOSE n \in names : \A o \in names \ {n} : StrLess(n, o)
       IN << least >> \o Sorted(names \ {least})

\* str(n) for an int n >= 0
RECURSIVE IntToStr(_)
IntToStr(n) ==
  IF n < 10 THEN << DigitChars[n + 1] >>
  ELSE IntToStr(n \div 10) \o << DigitChars[(n % 10) + 1] >>

HexChars == <<"0", "1", "2", "3", "4", "5", "6", "7", "8", "9", "a", "b", "c", "d", "e", "f">>

\* the number n in width hexadecimal digits
RECURSIVE Hex(_, _)
Hex(n, width) ==
  IF width = 0 THEN << >>
  ELSE Hex(n \div 16, width - 1) \o << HexChars[(n % 16) + 1] >>

\* the range of the digest below; sha256 has 2^256 values, of which the
\* program keeps 64 bits
DigestModulus == 65536

\* the number of hexadecimal digits parse keeps of the digest
EmailIdLength == 16

\* the digest of a text: a fixed function of all of its characters in order.
\* hashlib.sha256 is a library function whose arithmetic is not in the source;
\* a polynomial digest over the code points stands for it.
RECURSIVE Digest(_)
Digest(s) ==
  IF s = << >> THEN 7
  ELSE (31 * Digest(SubSeq(s, 1, Len(s) - 1)) + Ord(s[Len(s)])) % DigestModulus

\* hashlib.sha256(text.encode('utf-8')).hexdigest()[:16]
EmailId(s) == Hex(Digest(s), EmailIdLength)

\* a JSON null where the catalog should hold the object of a product
JsonNull == [json_null |-> TRUE]

IsJsonNull(v) == "json_null" \in DOMAIN v

\* ------------------------------------------------------------------------
\* process_inbox: parser.parse(raw_email) as one call
\* ------------------------------------------------------------------------
\* EmailParser(price_list, config).product_names, from the name at i on
RECURSIVE IndexNames(_, _, _)
IndexNames(catalog, i, names) ==
  IF i > Len(catalog) THEN names
  ELSE IndexNames(catalog, i + 1, RegisterName(names, catalog[i][1]))

\* the header loop, from the line at i on
RECURSIVE HeaderAll(_, _, _)
HeaderAll(lines, i, ev) ==
  IF i > Len(lines) THEN ev
  ELSE HeaderAll(lines, i + 1, HeaderStep(ev, lines[i]))

\* the known-product loop, from the alias at i on
RECURSIVE KnownAll(_, _, _)
KnownAll(body_lower, names, i) ==
  IF i > Len(names) THEN << >>
  ELSE KnownMentions(body_lower, names[i][1], names[i][2])
       \o KnownAll(body_lower, names, i + 1)

\* the verb heuristic, from the token at i on
RECURSIVE VerbAll(_, _, _)
VerbAll(tokens, i, names) ==
  IF i > Len(tokens) THEN << >>
  ELSE VerbStep(tokens, i, names) \o VerbAll(tokens, i + 1, names)

\* body of parse: the text after the first blank line
BodyOf(raw) ==
  LET parts == SplitOnce(raw, <<"\n", "\n">>)
  IN IF Len(parts) > 1 THEN parts[2] ELSE << >>

\* items_found of parse, once the unknown candidates are added
ItemsFound(names, body_text) ==
  KnownAll(StrLower(body_text), names, 1)
  \o DedupMentions(ConjunctionCandidates(AndFinditer(body_text, 1), names)
                   \o VerbAll(FindTokens(body_text, 1), 1, names), {})

\* the consolidation loop, from the mention at i on
RECURSIVE ConsolidateAll(_, _, _, _, _)
ConsolidateAll(catalog, cfg, found, i, cons) ==
  IF i > Len(found) THEN cons
  ELSE ConsolidateAll(catalog, cfg, found, i + 1,
         ConsolidateStep(cons, found[i], UnitOf(catalog, cfg, found[i].name)))

\* some mention names a product whose price_list.get(name, {}) is None
NullMetadata(catalog, found) ==
  \E i \in 1..Len(found) :
    LET meta == DictGet(catalog, found[i].name)
    IN meta # None /\ IsJsonNull(meta[1])

\* parse raises: None has no get
ParseRaises(catalog, names, raw) ==
  NullMetadata(catalog, ItemsFound(names, BodyOf(raw)))

\* str(exc) of that AttributeError
ParseError == <<"'", "N", "o", "n", "e", "T", "y", "p", "e", "'", " ", "o", "b", "j", "e", "c", "t", " ", "h", "a", "s", " ", "n", "o", " ", "a", "t", "t", "r", "i", "b", "u", "t", "e", " ", "'", "g", "e", "t", "'">>

\* the event parse returns, given its header fields, currency and items
ReturnedEvent(email_id, heads, currency, items, catalog) ==
  [email_id |-> email_id,
   from |-> heads.from,
   subject |-> heads.subject,
   items |-> items,
   currency |-> currency,
   missing_fields |-> MissingFields([heads EXCEPT !.items = items], catalog)]

\* the event parse returns for a text on which it does not raise
ParsedEvent(catalog, cfg, names, raw) ==
  ReturnedEvent(EmailId(raw),
                HeaderAll(SplitLines(SplitOnce(raw, <<"\n", "\n">>)[1]), 1, InitialEvent),
                CurrencyField(cfg, BodyOf(raw)),
                DictValues(ConsolidateAll(catalog, cfg, ItemsFound(names, BodyOf(raw)),
                                          1, << >>)),
                catalog)

\* what parser.parse(raw) comes to: None if it raises, else the event
ParseOutcome(catalog, cfg, raw) ==
  IF ParseRaises(catalog, IndexNames(catalog, 1, << >>), raw) THEN None
  ELSE Some(ParsedEvent(catalog, cfg, IndexNames(catalog, 1, << >>), raw))

\* ------------------------------------------------------------------------
\* draft_acknowledgment
\* ------------------------------------------------------------------------
\* sep.join(parts)
RECURSIVE Join(_, _)
Join(sep, parts) ==
  IF parts = << >> THEN << >>
  ELSE IF Len(parts) = 1 THEN parts[1]
  ELSE parts[1] \o sep \o Join(sep, Tail(parts))

\* s.split(sep)[1] for a text s that holds sep
SecondPart(s, sep) == SplitOnce(SplitOnce(s, sep)[2], sep)[1]

\* value or default, for an Optional str
OrDefault(value, default) == IF Falsy(value) THEN default ELSE value[1]

\* the description of one item
ItemDescription(item) ==
  IF item.quantity.value # None
  THEN IntToStr(item.quantity.value[1]) \o <<" ">> \o item.product_name.value[1] \o <<"(", "s", ")">>
  ELSE item.product_name.value[1]

\* the question asked for one missing field, if any
Question(field) ==
  IF StartsWith(field, <<"q", "u", "a", "n", "t", "i", "t", "y", " ", "f", "o", "r", " ">>)
  THEN << <<"C", "o", "u", "l", "d", " ", "y", "o", "u", " ", "p", "l", "e", "a", "s", "e", " ", "c", "o", "n", "f", "i", "r", "m", " ", "t", "h", "e", " ", "q", "u", "a", "n", "t", "i", "t", "y", " ", "r", "e", "q", "u", "i", "r", "e", "d", " ", "f", "o", "r", " ">>
          \o SecondPart(field, <<"q", "u", "a", "n", "t", "i", "t", "y", " ", "f", "o", "r", " ">>) \o <<"?">> >>
  ELSE IF StartsWith(field, <<"p", "r", "i", "c", "e", " ", "f", "o", "r", " ">>)
  THEN << <<"C", "o", "u", "l", "d", " ", "y", "o", "u", " ", "p", "r", "o", "v", "i", "d", "e", " ", "m", "o", "r", "e", " ", "d", "e", "t", "a", "i", "l", "s", " ", "a", "b", "o", "u", "t", " ">>
          \o SecondPart(field, <<"p", "r", "i", "c", "e", " ", "f", "o", "r", " ">>) \o <<" ", "s", "o", " ", "w", "e", " ", "c", "a", "n", " ", "c", "o", "n", "f", "i", "r", "m", " ", "p", "r", "i", "c", "i", "n", "g", "?">> >>
  ELSE IF field = <<"i", "t", "e", "m", "s">>
  THEN << <<"C", "o", "u", "l", "d", " ", "y", "o", "u", " ", "s", "p", "e", "c", "i", "f", "y", " ", "w", "h", "i", "c", "h", " ", "p", "r", "o", "d", "u", "c", "t", "s", " ", "a", "n", "d", " ", "q", "u", "a", "n", "t", "i", "t", "i", "e", "s", " ", "y", "o", "u", " ", "a", "r", "e", " ", "i", "n", "t", "e", "r", "e", "s", "t", "e", "d", " ", "i", "n", "?">> >>
  ELSE IF field = <<"s", "u", "b", "j", "e", "c", "t">>
  THEN << <<"C", "o", "u", "l", "d", " ", "y", "o", "u", " ", "p", "r", "o", "v", "i", "d", "e", " ", "a", " ", "b", "r", "i", "e", "f", " ", "s", "u", "b", "j", "e", "c", "t", " ", "f", "o", "r", " ", "t", "h", "i", "s", " ", "i", "n", "q", "u", "i", "r", "y", "?">> >>
  ELSE IF field = <<"f", "r", "o", "m">>
  THEN << <<"C", "o", "u", "l", "d", " ", "y", "o", "u", " ", "l", "e", "t", " ", "u", "s", " ", "k", "n", "o", "w", " ", "y", "o", "u", "r", " ", "p", "r", "e", "f", "e", "r", "r", "e", "d", " ", "c", "o", "n", "t", "a", "c", "t", " ", "e", "m", "a", "i", "l", "?">> >>
  ELSE << >>

\* the number of missing fields a draft asks about
MaxQuestions == 2

\* questions, from the missing field at i on
RECURSIVE Questions(_, _)
Questions(fields, i) ==
  IF i > Len(fields) \/ i > MaxQuestions THEN << >>
  ELSE Question(fields[i]) \o Questions(fields, i + 1)

draft_acknowledgment(ev, cfg) ==
  LET to_addr == OrDefault(ev.from.value, <<"c", "u", "s", "t", "o", "m", "e", "r">>)
      subj == OrDefault(ev.subject.value, <<"y", "o", "u", "r", " ", "i", "n", "q", "u", "i", "r", "y">>)
      name == IF Contains(to_addr, <<"@">>)
              THEN SubSeq(to_addr, 1, Find(to_addr, <<"@">>) - 1) ELSE to_addr
      greeting == IF name # << >> THEN <<"H", "e", "l", "l", "o", " ">> \o StrTitle(name) \o <<",">>
                  ELSE <<"H", "e", "l", "l", "o", ",">>
      thanks == IF ev.items # << >>
                THEN <<"T", "h", "a", "n", "k", " ", "y", "o", "u", " ", "f", "o", "r", " ", "r", "e", "a", "c", "h", "i", "n", "g", " ", "o", "u", "t", " ", "t", "o", " ", "u", "s", " ", "r", "e", "g", "a", "r", "d", "i", "n", "g", " ">>
                     \o Join(<<",", " ">>, [k \in 1..Len(ev.items) |-> ItemDescription(ev.items[k])])
                     \o <<".">>
                ELSE <<"T", "h", "a", "n", "k", " ", "y", "o", "u", " ", "f", "o", "r", " ", "y", "o", "u", "r", " ", "i", "n", "q", "u", "i", "r", "y", ".">>
      questions == Questions(ev.missing_fields, 1)
      asking == IF questions # << >>
                THEN << << >>,
                        <<"T", "o", " ", "h", "e", "l", "p", " ", "u", "s", " ", "p", "r", "e", "p", "a", "r", "e", " ", "a", "n", " ", "a", "c", "c", "u", "r", "a", "t", "e", " ", "q", "u", "o", "t", "e", ",", " ", "c", "o", "u", "l", "d", " ", "y", "o", "u", " ", "p", "l", "e", "a", "s", "e", " ", "c", "l", "a", "r", "i", "f", "y", " ", "t", "h", "e", " ", "f", "o", "l", "l", "o", "w", "i", "n", "g", ":">> >>
                     \o [k \in 1..Len(questions) |-> <<"-", " ">> \o questions[k]]
                ELSE << >>
      body_lines == << greeting, << >>, thanks >> \o asking
                    \o << << >>, JsonGetOr(cfg, "sla_text", Some(<< >>))[1], << >>,
                          <<"K", "i", "n", "d", " ", "r", "e", "g", "a", "r", "d", "s", ",">>, <<"S", "a", "l", "e", "s", " ", "T", "e", "a", "m">> >>
  IN [email_id |-> ev.email_id,
      to |-> to_addr,
      subject |-> <<"R", "e", ":", " ">> \o subj,
      body |-> Join(<<"\n">>, body_lines),
      missing_fields |-> ev.missing_fields,
      questions |-> questions]

\* ------------------------------------------------------------------------
\* apply_discount and generate_quote.  An amount of money is a whole number of
\* ten-thousandths, a rate a whole number of hundredths; the float of the
\* program is taken as the exact decimal.
\* ------------------------------------------------------------------------
\* the ten-thousandths in one unit of money
MoneyScale == 10000

\* the hundredths in a rate of 1.0
RateScale == 100

\* the ten-thousandths in one hundredth of a unit of money
CentScale == 100

\* the whole number nearest to n / d, a tie going to the even one, for n >= 0
RoundHalfEven(n, d) ==
  LET q == n \div d
      r == n % d
  IN IF 2 * r < d THEN q
     ELSE IF 2 * r > d THEN q + 1
     ELSE IF q % 2 = 0 THEN q ELSE q + 1

\* round(n / d, 2) for an amount n / d
Round2(n, d) == CentScale * RoundHalfEven(n, d * CentScale)

\* the rule that sorted(..., reverse=True) puts first among those the quantity
\* reaches: the greatest min_quantity, the earliest of equals
apply_discount(quantity, rules) ==
  LET fits == {k \in 1..Len(rules) : quantity >= rules[k].min_quantity}
  IN IF fits = {} THEN 0
     ELSE rules[CHOOSE k \in fits :
                  \A j \in fits :
                    \/ rules[j].min_quantity < rules[k].min_quantity
                    \/ rules[j].min_quantity = rules[k].min_quantity /\ k <= j].discount

\* float(price_list[pname]['unit_price'])
UnitPrice(catalog, pname) == MoneyScale * DictGet(catalog, pname)[1].unit_price

\* unit_price * qty - discount_amount of an item with a price and a quantity
LineSubtotal(unit_price, qty, rate) ==
  unit_price * qty - (unit_price * qty * rate) \div RateScale

\* the line of one item
QuoteLine(item, catalog, rules) ==
  LET pname == item.product_name.value[1]
      qty == item.quantity.value
      priced == pname \in DictKeys(catalog)
      full == priced /\ qty # None
      rate == IF full THEN apply_discount(qty[1], rules) ELSE 0
  IN [product_name |-> pname,
      unit_price |-> IF priced THEN Some(UnitPrice(catalog, pname)) ELSE None,
      quantity |-> qty,
      discount_rate |-> rate,
      discount_amount |->
        IF full THEN Round2(UnitPrice(catalog, pname) * qty[1] * rate, RateScale) ELSE 0,
      subtotal |->
        IF full THEN Some(Round2(LineSubtotal(UnitPrice(catalog, pname), qty[1], rate), 1))
        ELSE None]

\* what one item adds to quote['missing_fields']
LineMissing(item, catalog) ==
  IF item.product_name.value[1] \notin DictKeys(catalog)
  THEN << <<"p", "r", "i", "c", "e", " ", "f", "o", "r", " ">> \o item.product_name.value[1] >>
  ELSE IF item.quantity.value = None
  THEN << <<"q", "u", "a", "n", "t", "i", "t", "y", " ", "f", "o", "r", " ">> \o item.product_name.value[1] >>
  ELSE << >>

\* what one item adds to quote['subtotal']
LineAmount(item, catalog, rules) ==
  IF LineMissing(item, catalog) # << >> THEN 0
  ELSE LineSubtotal(UnitPrice(catalog, item.product_name.value[1]),
                    item.quantity.value[1],
                    apply_discount(item.quantity.value[1], rules))

\* sum(amounts)
RECURSIVE Sum(_)
Sum(amounts) == IF amounts = << >> THEN 0 ELSE Head(amounts) + Sum(Tail(amounts))

generate_quote(ev, catalog, rules, cfg) ==
  LET missing == Concat([k \in 1..Len(ev.items) |-> LineMissing(ev.items[k], catalog)])
      subtotal == Sum([k \in 1..Len(ev.items) |-> LineAmount(ev.items[k], catalog, rules)])
      pending == missing # << >>
      tax_rate == JsonGetOr(cfg, "tax_rate", Some(0))[1]
      tax == Round2(subtotal * tax_rate, RateScale)
  IN [email_id |-> ev.email_id,
      status |-> IF pending THEN "pending" ELSE "complete",
      line_items |-> [k \in 1..Len(ev.items) |-> QuoteLine(ev.items[k], catalog, rules)],
      subtotal |-> IF pending THEN subtotal ELSE Round2(subtotal, 1),
      tax |-> IF pending THEN 0 ELSE tax,
      total |-> IF pending THEN 0 ELSE Round2(subtotal + tax, 1),
      currency |-> ev.currency.value,
      missing_fields |-> missing]

\* ------------------------------------------------------------------------
\* process_inbox: the inbox directory and the data directory
\* ------------------------------------------------------------------------
\* an entry of the inbox directory.  content is the text f.read() returns, or
\* None when opening or decoding the file raises, and then error is str(exc)
File(name, is_file, content, error) ==
  [name |-> name, is_file |-> is_file, content |-> content, error |-> error]

\* inbox_path / fname
FileNamed(dir, fname) == CHOOSE f \in dir : f.name = fname

\* fpath.is_file() and fname.lower().endswith('.txt')
IsEmailFile(f) == f.is_file /\ EndsWith(StrLower(f.name), <<".", "t", "x", "t">>)

\* events_dir / f"{email_id}.json", within events_dir
EventPath(email_id) == email_id \o <<".", "j", "s", "o", "n">>

\* outbox_dir / f"{email_id}_ack.json", within outbox_dir
AckPath(email_id) == email_id \o <<"_", "a", "c", "k", ".", "j", "s", "o", "n">>

\* quotes_dir / f"{email_id}.json", within quotes_dir
QuotePath(email_id) == email_id \o <<".", "j", "s", "o", "n">>

\* a faulty test: the event file is looked up without its suffix
ExistsWithoutSuffix(store, email_id) == email_id \in DictKeys(store)

\* event_path.exists()
EventExists(store, email_id) == EventPath(email_id) \in DictKeys(store)

\* a record of the timeline; the wall-clock timestamp is left out
TimelineEntry(email_id, step, status, message) ==
  [email_id |-> email_id, step |-> step, status |-> status, message |-> message]

\* the record of a failure to read or to parse fname
ErrorEntry(step, prefix, fname, exc) ==
  TimelineEntry(None, step, "error", prefix \o fname \o <<":", " ">> \o exc)

\* the record of an email whose event is already stored
SkipEntry(email_id, fname) ==
  TimelineEntry(Some(email_id), "skip_email", "skipped",
                <<"E", "v", "e", "n", "t", " ", "f", "o", "r", " ">> \o fname \o <<" ", "a", "l", "r", "e", "a", "d", "y", " ", "p", "r", "o", "c", "e", "s", "s", "e", "d">>)

\* the three records of an email that is processed
SuccessEntries(email_id, fname, quote) ==
  << TimelineEntry(Some(email_id), "parse_email", "success", <<"P", "a", "r", "s", "e", "d", " ">> \o fname),
     TimelineEntry(Some(email_id), "generate_ack", "success",
                   <<"D", "r", "a", "f", "t", "e", "d", " ", "a", "c", "k", "n", "o", "w", "l", "e", "d", "g", "m", "e", "n", "t", " ", "f", "o", "r", " ">> \o fname),
     TimelineEntry(Some(email_id), "generate_quote",
                   IF quote.status = "complete" THEN "success" ELSE "pending",
                   <<"G", "e", "n", "e", "r", "a", "t", "e", "d", " ">>
                   \o (IF quote.status = "complete" THEN <<"c", "o", "m", "p", "l", "e", "t", "e">> ELSE <<"p", "e", "n", "d", "i", "n", "g">>)
                   \o <<" ", "q", "u", "o", "t", "e", " ", "f", "o", "r", " ">> \o fname) >>

\* a faulty continue: the loop is left at the first failure
BreakLoop(names, i) == Len(names) + 1

\* continue: the loop goes on with the next name of the listing
ContinueLoop(names, i) == i + 1

\* ------------------------------------------------------------------------
\* process_inbox: inputs
\* ------------------------------------------------------------------------
\* the most entries an inbox holds
MaxFiles == 3

\* the most times process_inbox runs over the inbox
MaxRuns == 2

\* price_list.json: one product with its object, one whose object is null
InboxCatalog == << CatalogEntry(<<"P", "e", "n">>), << <<"C", "a", "p">>, JsonNull >> >>

\* config.json
InboxConfig ==
  [currency |-> <<"I", "N", "R">>, default_currency |-> <<"I", "N", "R">>, default_unit |-> <<"e", "a", "c", "h">>,
   tax_rate |-> 18, sla_text |-> <<"W", "e", " ", "r", "e", "p", "l", "y", " ", "w", "i", "t", "h", "i", "n", " ", "a", " ", "d", "a", "y", ".">>]

\* discount_rules.json
InboxRules ==
  << [min_quantity |-> 10, discount |-> 5], [min_quantity |-> 50, discount |-> 10] >>

\* an order that can be quoted
OrderText == <<"F", "r", "o", "m", ":", " ", "b", "o", "b", "@", "x", ".", "c", "o", "m", "\n", "S", "u", "b", "j", "e", "c", "t", ":", " ", "O", "r", "d", "e", "r", "\n", "\n", "1", "2", " ", "p", "e", "n", "s">>

\* an inquiry whose quote stays pending
InquiryText == <<"F", "r", "o", "m", ":", " ", "a", "\n", "\n", "n", "e", "e", "d", " ", "g", "i", "z", "m", "o", "s", " ", "a", "n", "d", " ", "p", "e", "n">>

\* a text on which parse raises
CapText == <<"S", "u", "b", "j", "e", "c", "t", ":", " ", "c", "a", "p", "s", "\n", "\n", "2", " ", "c", "a", "p", "s">>

\* the entries an inbox is made of: emails that are quoted, left pending,
\* unreadable, unparsable or a copy of another, a file that is no .txt file and
\* a directory
InboxFiles ==
  {File(<<"B", ".", "T", "X", "T">>, TRUE, Some(InquiryText), << >>),
   File(<<"a", ".", "t", "x", "t">>, TRUE, None, <<"P", "e", "r", "m", "i", "s", "s", "i", "o", "n", " ", "d", "e", "n", "i", "e", "d">>),
   File(<<"b", ".", "t", "x", "t">>, TRUE, Some(OrderText), << >>),
   File(<<"c", ".", "t", "x", "t">>, TRUE, Some(CapText), << >>),
   File(<<"d", ".", "t", "x", "t">>, TRUE, Some(OrderText), << >>),
   File(<<"n", "o", "t", "e", "s", ".", "m", "d">>, TRUE, Some(OrderText), << >>),
   File(<<"o", "l", "d", ".", "t", "x", "t">>, FALSE, None, << >>)}

\* the inboxes of at most MaxFiles entries
Inboxes == {dir \in SUBSET InboxFiles : Cardinality(dir) <= MaxFiles}

\* ------------------------------------------------------------------------
\* The state machine: process_inbox(inbox_path, data_path), run after run.
\* parser.parse is a function of the text, the catalog and the configuration,
\* which no run changes: parse_result holds, for each text of the inbox, what
\* parser.parse(text) comes to, and the loop looks its call up there.
\* ------------------------------------------------------------------------
InitInbox ==
  /\ price_list = InboxCatalog
  /\ config = InboxConfig
  /\ discount_rules = InboxRules
  /\ inbox \in Inboxes
  /\ text = << >>
  /\ product_names = << >>
  /\ header = << >>
  /\ body = << >>
  /\ event = InitialEvent
  /\ items_found = << >>
  /\ unknown_candidates = << >>
  /\ consolidated = << >>
  /\ pc = "idle"
  /\ idx = 1
  /\ listing = << >>
  /\ events = << >>
  /\ outbox = << >>
  /\ quotes = << >>
  /\ timeline = << >>
  /\ parse_result = [raw \in {f.content[1] : f \in {g \in inbox : g.content # None}} |->
                       ParseOutcome(InboxCatalog, InboxConfig, raw)]
  /\ saves = 0
  /\ ipc = "start"
  /\ fidx = 1
  /\ run = 1

\* what no step of the loop changes
loop_fixed == <<price_list, config, text, product_names, header, body, event,
                items_found, unknown_candidates, consolidated, pc, idx,
                discount_rules, inbox, listing, parse_result, run>>

\* the files are loaded, the parser is built and the inbox is listed
StartRun ==
  /\ ipc = "start"
  /\ product_names' = IndexNames(price_list, 1, << >>)
  /\ listing' = Sorted({f.name : f \in inbox})
  /\ fidx' = 1
  /\ ipc' = "loop"
  /\ UNCHANGED <<price_list, config, text, header, body, event, items_found,
                 unknown_candidates, consolidated, pc, idx, discount_rules, inbox,
                 events, outbox, quotes, timeline, parse_result, saves, run>>

\* fname is not a file or not a .txt file
SkipOther ==
  /\ ipc = "loop"
  /\ fidx <= Len(listing)
  /\ ~IsEmailFile(FileNamed(inbox, listing[fidx]))
  /\ fidx' = ContinueLoop(listing, fidx)
  /\ UNCHANGED <<loop_fixed, events, outbox, quotes, timeline, saves, ipc>>

\* reading fname raises
ReadFail ==
  /\ ipc = "loop"
  /\ fidx <= Len(listing)
  /\ LET f == FileNamed(inbox, listing[fidx])
     IN /\ IsEmailFile(f)
        /\ f.content = None
        /\ timeline' = Append(timeline,
             ErrorEntry("read_email", <<"F", "a", "i", "l", "e", "d", " ", "t", "o", " ", "r", "e", "a", "d", " ">>, f.name, f.error))
  /\ fidx' = ContinueLoop(listing, fidx)
  /\ UNCHANGED <<loop_fixed, events, outbox, quotes, saves, ipc>>

\* parsing fname raises
ParseFail ==
  /\ ipc = "loop"
  /\ fidx <= Len(listing)
  /\ LET f == FileNamed(inbox, listing[fidx])
     IN /\ IsEmailFile(f)
        /\ f.content # None
        /\ parse_result[f.content[1]] = None
        /\ timeline' = Append(timeline,
             ErrorEntry("parse_email", <<"F", "a", "i", "l", "e", "d", " ", "t", "o", " ", "p", "a", "r", "s", "e", " ">>, f.name, ParseError))
  /\ fidx' = ContinueLoop(listing, fidx)
  /\ UNCHANGED <<loop_fixed, events, outbox, quotes, saves, ipc>>

\* the event of fname is already stored
SkipExisting ==
  /\ ipc = "loop"
  /\ fidx <= Len(listing)
  /\ LET f == FileNamed(inbox, listing[fidx])
     IN /\ IsEmailFile(f)
        /\ f.content # None
        /\ parse_result[f.content[1]] # None
        /\ EventExists(events, parse_result[f.content[1]][1].email_id)
        /\ timeline' = Append(timeline,
             SkipEntry(parse_result[f.content[1]][1].email_id, f.name))
  /\ fidx' = ContinueLoop(listing, fidx)
  /\ UNCHANGED <<loop_fixed, events, outbox, quotes, saves, ipc>>

\* lines 432 to 463: the event, its acknowledgment and its quote are saved and
\* the three records are appended
SaveOutputs(fname, ev, quote) ==
  /\ events' = DictSet(events, EventPath(ev.email_id), ev)
  /\ outbox' = DictSet(outbox, AckPath(ev.email_id), draft_acknowledgment(ev, config))
  /\ quotes' = DictSet(quotes, QuotePath(ev.email_id), quote)
  /\ timeline' = timeline \o SuccessEntries(ev.email_id, fname, quote)
  /\ saves' = saves + 3

\* the quote is that of the event
QuoteAndSave(fname, ev) ==
  SaveOutputs(fname, ev, generate_quote(ev, price_list, discount_rules, config))

\* the event, the acknowledgment and the quote of fname are stored
ProcessEmail ==
  /\ ipc = "loop"
  /\ fidx <= Len(listing)
  /\ LET f == FileNamed(inbox, listing[fidx])
     IN /\ IsEmailFile(f)
        /\ f.content # None
        /\ parse_result[f.content[1]] # None
        /\ ~EventExists(events, parse_result[f.content[1]][1].email_id)
        /\ QuoteAndSave(f.name, parse_result[f.content[1]][1])
  /\ fidx' = fidx + 1
  /\ UNCHANGED <<loop_fixed, ipc>>

\* the listing is exhausted: process_inbox returns
EndRun ==
  /\ ipc = "loop"
  /\ fidx > Len(listing)
  /\ ipc' = "end"
  /\ UNCHANGED <<loop_fixed, events, outbox, quotes, timeline, saves, fidx>>

\* the program is run again over the same inbox and data directory
Rerun ==
  /\ ipc = "end"
  /\ run < MaxRuns
  /\ run' = run + 1
  /\ ipc' = "start"
  /\ UNCHANGED <<price_list, config, text, product_names, header, body, event,
                 items_found, unknown_candidates, consolidated, pc, idx,
                 discount_rules, inbox, listing, events, outbox, quotes, timeline,
                 parse_result, saves, fidx>>

NextInbox ==
  \/ StartRun
  \/ SkipOther
  \/ ReadFail
  \/ ParseFail
  \/ SkipExisting
  \/ ProcessEmail
  \/ EndRun
  \/ Rerun

SpecInbox == InitInbox /\ [][NextInbox]_vars

\* the interpreter goes on with the loop as long as a step is left
SpecInboxFair == InitInbox /\ [][NextInbox]_vars /\ WF_vars(NextInbox)
\* ------------------------------------------------------------------------
\* Properties
\* ------------------------------------------------------------------------
\* the number of mentions the consolidation loop has processed
Processed ==
  IF pc = "consolidate" THEN idx - 1
  ELSE IF pc = "done" THEN Len(items_found)
  ELSE 0

\* the Items held so far
ItemsSoFar == DictValues(consolidated)

\* the positions, among the first n mentions, of the mentions of a name
MentionsOf(name, n) == {k \in 1..n : items_found[k].name = name}

\* C1: every Item has quantity confidence 0.0 exactly when its quantity value
\* is None, after each step of the consolidation loop and in the returned Event.
C1_QuantityConfidence ==
  /\ \A k \in 1..Len(ItemsSoFar) :
       (ItemsSoFar[k].quantity.confidence = 0) <=> (ItemsSoFar[k].quantity.value = None)
  /\ \A k \in 1..Len(event.items) :
       (event.items[k].quantity.confidence = 0) <=> (event.items[k].quantity.value = None)

\* C1 witness: a returned Event with an Item seeded without a quantity that
\* adopted one from a later mention, next to an Item that has none.
C1_Witness ==
  /\ pc = "done"
  /\ \E k \in 1..Len(event.items) :
       LET ms == MentionsOf(event.items[k].product_name.value[1], Len(items_found))
       IN /\ event.items[k].quantity.value # None
          /\ items_found[CHOOSE j \in ms : \A i \in ms : j <= i].qty = None
  /\ \E k \in 1..Len(event.items) : event.items[k].quantity.value = None

\* C2: no two Items of the Event (nor of the consolidation in progress) have
\* the same product_name.value.
C2_DistinctNames ==
  /\ \A j, k \in 1..Len(ItemsSoFar) :
       j # k => ItemsSoFar[j].product_name.value # ItemsSoFar[k].product_name.value
  /\ \A j, k \in 1..Len(event.items) :
       j # k => event.items[j].product_name.value # event.items[k].product_name.value

\* C2 witness: a returned Event for a body that mentions one known product
\* both with a quantity and bare, and an unknown candidate as well.
C2_Witness ==
  /\ pc = "done"
  /\ \E j, k \in 1..Len(items_found) :
       /\ items_found[j].name = items_found[k].name
       /\ items_found[j].conf = QuantityConfidence
       /\ items_found[k].conf = BareConfidence
  /\ \E k \in 1..Len(items_found) : items_found[k].conf = UnknownConfidence
  /\ Len(event.items) = 2

\* the bare occurrences of an alias in the lower-cased body that lie in no
\* quantity match of that alias
FreeBareOccurrences(key) ==
  LET s == StrLower(body)
      qmatches == QtyFinditer(s, 1, key)
  IN {p \in 1..Len(s) :
        /\ PlainMatchAt(s, p, key) # None
        /\ ~\E k \in 1..Len(qmatches) :
              qmatches[k].start <= p /\ p + Len(key) <= qmatches[k].end}

\* the bare occurrences of an alias in the lower-cased body
BareOccurrences(key) ==
  {p \in 1..Len(body) : PlainMatchAt(StrLower(body), p, key) # None}

\* the number of aliases the known-product loop has processed
AliasesDone ==
  IF pc \in {"index", "header"} THEN 0
  ELSE IF pc = "known" THEN idx - 1
  ELSE Len(product_names)

\* the bare occurrences outside every quantity match, summed over the first n
\* aliases that stand for a canonical name
RECURSIVE FreeBareCount(_, _)
FreeBareCount(name, n) ==
  IF n = 0 THEN 0
  ELSE FreeBareCount(name, n - 1)
       + (IF product_names[n][2] = name
          THEN Cardinality(FreeBareOccurrences(product_names[n][1])) ELSE 0)

\* C3: the bare mentions (canonical_name, None, 0.6, '') found for a product
\* are, alias by alias, one per bare occurrence of the alias whose span lies in
\* no quantity match of that alias, and none for the other bare occurrences.
C3_BareSuppression ==
  \A n \in 1..Len(product_names) :
    LET name == product_names[n][2]
    IN Cardinality({k \in 1..Len(items_found) :
                      items_found[k] = Mention(name, None, BareConfidence, "")})
       = FreeBareCount(name, AliasesDone)

\* C3 witness: an alias with a quantity match that covers one bare occurrence
\* and leaves another one outside, after the alias has been processed.
C3_Witness ==
  /\ pc = "verb"
  /\ \E n \in 1..Len(product_names) :
       LET key == product_names[n][1]
       IN /\ QtyFinditer(StrLower(body), 1, key) # << >>
          /\ FreeBareOccurrences(key) # {}
          /\ FreeBareOccurrences(key) # BareOccurrences(key)

\* the elements of a sequence
Range(q) == {q[k] : k \in 1..Len(q)}

\* parse is past the header loop
HeaderDone == pc \notin {"index", "header"}

\* the trimmed remainder of the first header line that starts with a prefix
FirstLineValue(prefix) ==
  LET lines == SplitLines(header)
      hits == {k \in 1..Len(lines) : StartsWith(StrLower(lines[k]), prefix)}
  IN IF hits = {} THEN None
     ELSE Some(Strip(SplitOnce(lines[CHOOSE k \in hits : \A j \in hits : k <= j], <<":">>)[2]))

\* C4: the from and subject values are taken from the first From: and the
\* first Subject: line of the header; later lines with the prefix are ignored.
C4_FirstHeaderLineWins ==
  HeaderDone =>
    /\ event.from.value = FirstLineValue(<<"f", "r", "o", "m", ":">>)
    /\ event.subject.value = FirstLineValue(<<"s", "u", "b", "j", "e", "c", "t", ":">>)

\* C5: for sender and subject, a non-empty value has confidence 0.95; otherwise
\* the confidence is 0.0 and notes is "missing sender" / "missing subject",
\* whether the header line is empty or absent.
C5_HeaderConfidenceAndNote ==
  HeaderDone =>
    /\ IF Falsy(event.from.value)
       THEN event.from.confidence = 0 /\ event.from.notes = "missing sender"
       ELSE event.from.confidence = HeaderConfidence
    /\ IF Falsy(event.subject.value)
       THEN event.subject.confidence = 0 /\ event.subject.notes = "missing subject"
       ELSE event.subject.confidence = HeaderConfidence

\* a catalog name registers an alias: its lower-cased form, or that plus "s"
\* when it does not end in "s"
Registers(name, alias) ==
  \/ StrLower(name) = alias
  \/ ~EndsWith(StrLower(name), <<"s">>) /\ StrLower(name) \o <<"s">> = alias

\* the first catalog name, in catalog order, that registers an alias
FirstRegistrant(alias) ==
  LET hits == {k \in 1..Len(price_list) : Registers(price_list[k][1], alias)}
  IN price_list[CHOOSE k \in hits : \A j \in hits : k <= j][1]

\* C6: every alias of the map points to the canonical name that registered it
\* first; no later registration re-points it.
C6_FirstRegistrationWins ==
  \A k \in 1..Len(product_names) :
    product_names[k][2] = FirstRegistrant(product_names[k][1])

\* the quantity of the first of the first n mentions of a name that has one
FirstQuantity(name, n) ==
  LET withQty == {k \in MentionsOf(name, n) : items_found[k].qty # None}
  IN IF withQty = {} THEN None
     ELSE items_found[CHOOSE k \in withQty : \A j \in withQty : k <= j].qty

\* the greatest confidence of the first n mentions of a name
MaxConfidence(name, n) ==
  LET confs == {items_found[k].conf : k \in MentionsOf(name, n)}
  IN CHOOSE c \in confs : \A d \in confs : c >= d

\* C7: after each merge, an Item's quantity is that of the first mention so
\* far that carries one (None if none does) and its product_name confidence
\* is the maximum over the mentions so far.
C7_FirstQuantityMaxConfidence ==
  /\ {ItemsSoFar[k].product_name.value[1] : k \in 1..Len(ItemsSoFar)}
       = {items_found[k].name : k \in 1..Processed}
  /\ \A k \in 1..Len(ItemsSoFar) :
       LET name == ItemsSoFar[k].product_name.value[1]
       IN /\ ItemsSoFar[k].quantity.value = FirstQuantity(name, Processed)
          /\ ItemsSoFar[k].product_name.confidence = MaxConfidence(name, Processed)

\* C7 witness: all mentions merged, two mentions of one name carrying
\* different quantities.
C7_Witness ==
  /\ pc = "done"
  /\ \E i, j \in 1..Len(items_found) :
       /\ i < j
       /\ items_found[i].name = items_found[j].name
       /\ items_found[i].qty # None
       /\ items_found[j].qty # None
       /\ items_found[i].qty # items_found[j].qty

\* an entry of missing_fields for an Item: prefix, then the product name
ItemEntry(prefix, item) == prefix \o item.product_name.value[1]

\* the place of an entry in the fixed order: from, subject, items, then for
\* the k-th Item its quantity entry and its price entry; -1 for anything else
EntryRank(e) ==
  LET ItemRank(prefix, base) ==
        LET hits == {k \in 1..Len(event.items) : ItemEntry(prefix, event.items[k]) = e}
        IN IF hits = {} THEN -1 ELSE base + 2 * (CHOOSE k \in hits : TRUE)
  IN IF e = <<"f", "r", "o", "m">> THEN 0
     ELSE IF e = <<"s", "u", "b", "j", "e", "c", "t">> THEN 1
     ELSE IF e = <<"i", "t", "e", "m", "s">> THEN 2
     ELSE IF StartsWith(e, <<"q", "u", "a", "n", "t", "i", "t", "y", " ", "f", "o", "r", " ">>) THEN ItemRank(<<"q", "u", "a", "n", "t", "i", "t", "y", " ", "f", "o", "r", " ">>, 1)
     ELSE IF StartsWith(e, <<"p", "r", "i", "c", "e", " ", "f", "o", "r", " ">>) THEN ItemRank(<<"p", "r", "i", "c", "e", " ", "f", "o", "r", " ">>, 2)
     ELSE -1

\* C8: missing_fields holds "from" iff the sender is absent, "subject" iff the
\* subject is absent, "items" iff there is no Item, "quantity for X" iff Item X
\* has no quantity and "price for X" iff X is no catalog key, each once, in the
\* order from, subject, items or (quantity, price) Item by Item.
C8_MissingFieldsOrder ==
  pc = "done" =>
    LET mf == event.missing_fields
    IN /\ \A k \in 1..Len(mf) : EntryRank(mf[k]) >= 0
       /\ \A j, k \in 1..Len(mf) : j < k => EntryRank(mf[j]) < EntryRank(mf[k])
       /\ (<<"f", "r", "o", "m">> \in Range(mf)) <=> Falsy(event.from.value)
       /\ (<<"s", "u", "b", "j", "e", "c", "t">> \in Range(mf)) <=> Falsy(event.subject.value)
       /\ (<<"i", "t", "e", "m", "s">> \in Range(mf)) <=> (event.items = << >>)
       /\ <<"i", "t", "e", "m", "s">> \in Range(mf) =>
            \A k \in 1..Len(mf) : mf[k] \in {<<"f", "r", "o", "m">>, <<"s", "u", "b", "j", "e", "c", "t">>, <<"i", "t", "e", "m", "s">>}
       /\ \A k \in 1..Len(event.items) :
            /\ (ItemEntry(<<"q", "u", "a", "n", "t", "i", "t", "y", " ", "f", "o", "r", " ">>, event.items[k]) \in Range(mf))
                 <=> (event.items[k].quantity.value = None)
            /\ (ItemEntry(<<"p", "r", "i", "c", "e", " ", "f", "o", "r", " ">>, event.items[k]) \in Range(mf))
                 <=> (event.items[k].product_name.value[1] \notin DictKeys(price_list))

\* C8 witness: sender and subject absent, two Items with missing entries, one
\* of them with both a quantity and a price entry.
C8_Witness ==
  /\ pc = "done"
  /\ Falsy(event.from.value)
  /\ Falsy(event.subject.value)
  /\ Len(event.items) = 2
  /\ Len(event.missing_fields) = 5

\* the body has one of the cues, case-folded
HasCue(cues) == \E c \in cues : Contains(StrLower(body), c)

\* C9: the currency is USD at 0.8 if the body has "usd" or "$"; otherwise INR
\* at 0.8 if it has "inr", the rupee sign or "rupees"; otherwise the config's
\* default_currency entry at 0.5 with note "default currency assumed".
C9_CurrencyOutcome ==
  HeaderDone =>
    event.currency =
      IF HasCue({<<"u", "s", "d">>, << "$" >>})
      THEN Field(Some(<<"U", "S", "D">>), CurrencyConfidence, "")
      ELSE IF HasCue({<<"i", "n", "r">>, << RupeeSign >>, <<"r", "u", "p", "e", "e", "s">>})
      THEN Field(Some(<<"I", "N", "R">>), CurrencyConfidence, "")
      ELSE Field(JsonGet(config, "default_currency"), DefaultCurrencyConfidence,
                 "default currency assumed")

\* a token that is neither a known alias nor a stopword and ends in "s"
Qualifies(token) ==
  /\ StrLower(token) \notin DictKeys(product_names)
  /\ StrLower(token) \notin stopwords
  /\ token # << >>
  /\ StrLower(token)[Len(token)] = "s"

\* the offsets, among the ScanWindow tokens after tokens[i], of the qualifying tokens
QualifyingOffsets(tokens, i) ==
  {o \in 1..ScanWindow : i + o <= Len(tokens) /\ Qualifies(tokens[i + o])}

\* what the verb heuristic is to record for the first n tokens
RECURSIVE VerbCandidates(_, _)
VerbCandidates(tokens, n) ==
  IF n = 0 THEN << >>
  ELSE VerbCandidates(tokens, n - 1)
       \o (IF StrLower(tokens[n]) \in verb_tokens /\ QualifyingOffsets(tokens, n) # {}
           THEN LET offs == QualifyingOffsets(tokens, n)
                IN << StrTitle(tokens[n + CHOOSE o \in offs : \A q \in offs : o <= q]) >>
           ELSE << >>)

\* the number of tokens the verb loop has processed
TokensDone ==
  IF pc \in {"index", "header", "known"} THEN 0
  ELSE IF pc = "verb" THEN idx - 1
  ELSE Len(FindTokens(body, 1))

\* the mentions of unknown products in items_found
UnknownMentions ==
  SelectSeq(items_found, LAMBDA m : m.conf = UnknownConfidence)

\* the first position of a candidate in unknown_candidates
FirstSeen(cand) ==
  CHOOSE k \in 1..Len(unknown_candidates) :
    /\ unknown_candidates[k] = cand
    /\ \A j \in 1..(k - 1) : unknown_candidates[j] # cand

\* C10: each verb occurrence records at most one candidate, the title-cased
\* first token among the 4 after it that is no alias, no stopword and ends in
\* "s"; after de-duplication each distinct candidate has exactly one mention
\* (name, None, 0.2, "unknown product"), in first-seen order, and none is a
\* known alias or a stopword.
C10_VerbProximity ==
  /\ pc \notin {"index", "header", "known"} =>
       unknown_candidates
         = ConjunctionCandidates(AndFinditer(body, 1), product_names)
           \o VerbCandidates(FindTokens(body, 1), TokensDone)
  /\ pc \in {"consolidate", "done"} =>
       /\ {UnknownMentions[k].name : k \in 1..Len(UnknownMentions)} = Range(unknown_candidates)
       /\ \A k \in 1..Len(UnknownMentions) :
            /\ UnknownMentions[k]
                 = Mention(UnknownMentions[k].name, None, UnknownConfidence, "unknown product")
            /\ StrLower(UnknownMentions[k].name) \notin DictKeys(product_names) \cup stopwords
       /\ \A j, k \in 1..Len(UnknownMentions) :
            j < k => FirstSeen(UnknownMentions[j].name) < FirstSeen(UnknownMentions[k].name)

\* C10 witness: a verb followed by two qualifying tokens within the window, of
\* which only the first is recorded, and a candidate recorded twice that has
\* one mention.
C10_Witness ==
  /\ pc = "done"
  /\ LET tokens == FindTokens(body, 1)
     IN \E i \in 1..Len(tokens) :
          /\ StrLower(tokens[i]) \in verb_tokens
          /\ Cardinality(QualifyingOffsets(tokens, i)) >= 2
  /\ Len(unknown_candidates) > Len(UnknownMentions)
  /\ Len(UnknownMentions) = 1


\* ------------------------------------------------------------------------
\* Properties of process_inbox
\* ------------------------------------------------------------------------
\* the entry of the inbox the loop is at
Current == FileNamed(inbox, listing[fidx])

\* the loop is at an email that can be read
AtReadable ==
  /\ ipc = "loop"
  /\ fidx <= Len(listing)
  /\ IsEmailFile(Current)
  /\ Current.content # None

\* the loop is at an email that parses and whose event is already in the store
Replayed ==
  /\ AtReadable
  /\ ~ParseRaises(price_list, product_names, Current.content[1])
  /\ EventPath(EmailId(Current.content[1])) \in DictKeys(events)

\* nothing is written to the three stores
StoresUntouched ==
  /\ events' = events
  /\ outbox' = outbox
  /\ quotes' = quotes
  /\ saves' = saves

\* the timeline grows by one record of the given status and email_id
OneRecord(status, email_id) ==
  /\ Len(timeline') = Len(timeline) + 1
  /\ SubSeq(timeline', 1, Len(timeline)) = timeline
  /\ timeline'[Len(timeline')].status = status
  /\ timeline'[Len(timeline')].email_id = email_id

\* the positions of the timeline records of a status
RecordsOf(status) == {k \in 1..Len(timeline) : timeline[k].status = status}

\* C11: a step on an email whose event is already stored writes no event,
\* acknowledgment or quote and appends exactly one 'skipped' record for that
\* email_id; and no step of a second run over the same inbox writes to events,
\* outbox or quotes
C11_IdempotentReplay ==
  [][/\ Replayed => /\ StoresUntouched
                    /\ OneRecord("skipped", Some(EmailId(Current.content[1])))
     /\ run >= 2 => StoresUntouched]_vars

\* two files of one text have gone through two runs: one event, three writes,
\* and three 'skipped' records, one of the first run and two of the second
C11_Witness ==
  /\ run = 2
  /\ ipc = "end"
  /\ Len(events) = 1
  /\ saves = 3
  /\ Cardinality(RecordsOf("skipped")) = 3

\* reading or parsing the entry f raises
Fails(f) ==
  f.content = None \/ ParseRaises(price_list, product_names, f.content[1])

\* the loop is at an email whose reading or parsing raises
Failing ==
  /\ ipc = "loop"
  /\ fidx <= Len(listing)
  /\ IsEmailFile(Current)
  /\ Fails(Current)

\* the timeline holds an error record without email_id whose message names fname
ErrorLogged(fname) ==
  \E k \in RecordsOf("error") :
    timeline[k].email_id = None /\ Contains(timeline[k].message, fname)

\* the event, the acknowledgment and the quote of a text are stored
OutputsStored(raw) ==
  /\ EventPath(EmailId(raw)) \in DictKeys(events)
  /\ AckPath(EmailId(raw)) \in DictKeys(outbox)
  /\ QuotePath(EmailId(raw)) \in DictKeys(quotes)

\* the loop has dealt with the entry f: an email that fails is logged, any other
\* email has its outputs stored
Handled(f) ==
  IsEmailFile(f) => IF Fails(f) THEN ErrorLogged(f.name) ELSE OutputsStored(f.content[1])

\* the listing is in sorted order and every entry before the loop's position
\* has been dealt with
InOrderProgress ==
  ipc \in {"loop", "end"} =>
    /\ \A j, k \in 1..Len(listing) : j < k => StrLess(listing[j], listing[k])
    /\ {f.name : f \in inbox} = {listing[k] : k \in 1..Len(listing)}
    /\ \A k \in 1..(fidx - 1) : Handled(FileNamed(inbox, listing[k]))

\* C12: a step on an email whose reading or parsing raises appends one error
\* record that names the file, writes no event, acknowledgment or quote, and
\* moves the loop to the next name; every entry the loop has passed, in sorted
\* order of the names, is logged or stored; and after a failure the loop still
\* reaches the end of the inbox
C12_FailureIsSkipped ==
  /\ [][Failing => /\ StoresUntouched
                   /\ OneRecord("error", None)
                   /\ Contains(timeline'[Len(timeline')].message, Current.name)
                   /\ fidx' = fidx + 1
                   /\ ipc' = "loop"]_vars
  /\ []InOrderProgress
  /\ (Failing ~> (ipc = "end"))

\* a run has ended in which a read failure was logged, a later email was
\* processed and a parse failure was logged after that
C12_Witness ==
  /\ ipc = "end"
  /\ \E j, k, l \in 1..Len(timeline) :
       /\ j < k /\ k < l
       /\ timeline[j].status = "error" /\ timeline[j].step = "read_email"
       /\ timeline[k].status = "success"
       /\ timeline[l].status = "error" /\ timeline[l].step = "parse_email"
====
